---- MODULE Spec2Model ----
(***************************************************************************)
(* Model of jtextwrap.TextWrapper (src/jtextwrap.py): the greedy wrapper   *)
(* inherited from textwrap.TextWrapper and the justification pass that     *)
(* _wrap_chunks adds on top of it.                                         *)
(*                                                                         *)
(* A string is a sequence of one-character strings.  The characters are    *)
(* "a" (a letter), "#" (an indent character), " ", "\n" and the characters *)
(* of the placeholder " [...]".  A TextWrapper object is a record, self,   *)
(* of its options.  The options the model does not carry keep their        *)
(* defaults: expand_tabs, replace_whitespace, drop_whitespace,             *)
(* break_long_words and break_on_hyphens are true, fix_sentence_endings is *)
(* false, placeholder is " [...]".  No character of the alphabet is a      *)
(* hyphen or a tab.                                                        *)
(***************************************************************************)
EXTENDS Integers, Sequences, FiniteSets, TLC

\* Longest text handed to wrap() and fill(), before extra spaces are added,
\* and the largest width a TextWrapper is constructed with.
MaxLen == 8
MaxWidth == 8
\* The same for shorten().
MaxShortenLen == 9
MaxShortenWidth == 8

VARIABLES
    w,       \* the TextWrapper object: a record of its options
    pc,      \* "new": constructed; "done": a call returned or raised;
             \* "again": fill()'s result was wrapped once more
    api,     \* the method called: "none", "wrap", "fill" or "shorten"
    text,    \* the text the method was called with
    ret,     \* what _wrap_chunks did: [err, lines, info, jlines]
    filled,  \* the string fill() or shorten() returned
    prev     \* in "again": the text and the lines of the call before

vars == <<w, pc, api, text, ret, filled, prev>>

(***************************************************************************)
(* Strings                                                                 *)
(***************************************************************************)
IsSpace(c) == c \in {" ", "\n"}

\* s.strip() == ''
IsBlank(s) == \A i \in 1..Len(s) : IsSpace(s[i])

RECURSIVE LStrip(_)
LStrip(s) == IF s /= <<>> /\ IsSpace(Head(s)) THEN LStrip(Tail(s)) ELSE s

RECURSIVE RStrip(_)
RStrip(s) ==
    IF s /= <<>> /\ IsSpace(s[Len(s)]) THEN RStrip(SubSeq(s, 1, Len(s) - 1)) ELSE s

\* str.strip()
Strip(s) == RStrip(LStrip(s))

\* ' ' * n (the empty string when n <= 0)
Spaces(n) == [i \in 1..n |-> " "]

\* ''.join(chunks)
RECURSIVE Concat(_)
Concat(cs) == IF cs = <<>> THEN <<>> ELSE Head(cs) \o Concat(Tail(cs))

\* A variant of JoinLines that leaves the line breaks out.
JoinLinesNoBreak(ls) == Concat(ls)

\* '\n'.join(lines)
RECURSIVE JoinLines(_)
JoinLines(ls) ==
    IF ls = <<>> THEN <<>>
    ELSE IF Len(ls) = 1 THEN ls[1]
    ELSE ls[1] \o <<"\n">> \o JoinLines(Tail(ls))

\* re.sub(' +', ' ', s): every run of spaces becomes one space.
RECURSIVE CollapseSpaces(_)
CollapseSpaces(s) ==
    IF s = <<>> THEN <<>>
    ELSE IF Head(s) = " " /\ Len(s) > 1 /\ s[2] = " " THEN CollapseSpaces(Tail(s))
    ELSE <<Head(s)>> \o CollapseSpaces(Tail(s))

\* textwrap.TextWrapper._munge_whitespace: every whitespace character
\* becomes a space (replace_whitespace).
Munge(s) == [i \in 1..Len(s) |-> IF IsSpace(s[i]) THEN " " ELSE s[i]]

\* textwrap.TextWrapper._split: the maximal runs of whitespace and of
\* non-whitespace characters, in order, none empty.
RECURSIVE SplitFrom(_, _)
SplitFrom(s, cur) ==
    IF s = <<>> THEN (IF cur = <<>> THEN <<>> ELSE <<cur>>)
    ELSE IF cur = <<>> \/ IsSpace(cur[1]) = IsSpace(Head(s))
         THEN SplitFrom(Tail(s), Append(cur, Head(s)))
         ELSE <<cur>> \o SplitFrom(Tail(s), <<Head(s)>>)

Split(s) == SplitFrom(s, <<>>)

\* ' '.join(text.strip().split())
RECURSIVE JoinWords(_)
JoinWords(cs) ==
    IF cs = <<>> THEN <<>>
    ELSE IF IsBlank(Head(cs)) THEN (IF Len(cs) > 1 THEN <<" ">> ELSE <<>>) \o JoinWords(Tail(cs))
    ELSE Head(cs) \o JoinWords(Tail(cs))

NormalizeWords(s) == JoinWords(Split(Strip(s)))

\* Python's floor division and modulo, defined for a negative divisor too.
PyMod(a, b) == IF b > 0 THEN a % b ELSE -((-a) % (-b))
PyDiv(a, b) == (a - PyMod(a, b)) \div b

Placeholder == <<" ", "[", ".", ".", ".", "]">>

(***************************************************************************)
(* textwrap.TextWrapper._wrap_chunks, the greedy wrapper the subclass      *)
(* calls through super()                                                   *)
(***************************************************************************)
\* The inner "while chunks" loop: chunks move to the line while they fit.
RECURSIVE TakeFitting(_, _, _, _)
TakeFitting(chunks, cur_line, cur_len, width) ==
    IF chunks /= <<>> /\ cur_len + Len(Head(chunks)) <= width
    THEN TakeFitting(Tail(chunks), Append(cur_line, Head(chunks)),
                     cur_len + Len(Head(chunks)), width)
    ELSE [chunks |-> chunks, cur_line |-> cur_line]

\* _handle_long_word with break_long_words: the first chunk is cut so that
\* the line is filled, one character at least when nothing fits at all.
HandleLongWord(chunks, cur_line, width) ==
    LET cur_len    == Len(Concat(cur_line))
        space_left == IF width < 1 THEN 1 ELSE width - cur_len
        chunk      == Head(chunks)
    IN  [chunks   |-> <<SubSeq(chunk, space_left + 1, Len(chunk))>> \o Tail(chunks),
         cur_line |-> Append(cur_line, SubSeq(chunk, 1, space_left))]

\* The "while cur_line" loop of the max_lines branch: the line as truncated
\* with the placeholder, or <<>> when no word of it can stay.
RECURSIVE Truncate(_, _)
Truncate(cur_line, width) ==
    IF cur_line = <<>> THEN <<>>
    ELSE IF ~IsBlank(cur_line[Len(cur_line)])
            /\ Len(Concat(cur_line)) + Len(Placeholder) <= width
         THEN Append(cur_line, Placeholder)
         ELSE Truncate(SubSeq(cur_line, 1, Len(cur_line) - 1), width)

RECURSIVE WrapLoop(_, _, _)
WrapLoop(self, chunks, lines) ==
    IF chunks = <<>> THEN lines
    ELSE
    LET indent == IF lines /= <<>> THEN self.subsequent_indent ELSE self.initial_indent
        width  == self.width - Len(indent)
        c1     == IF IsBlank(Head(chunks)) /\ lines /= <<>> THEN Tail(chunks) ELSE chunks
        t      == TakeFitting(c1, <<>>, 0, width)
        h      == IF t.chunks /= <<>> /\ Len(Head(t.chunks)) > width
                  THEN HandleLongWord(t.chunks, t.cur_line, width) ELSE t
        rest   == h.chunks
        cur    == IF h.cur_line /= <<>> /\ IsBlank(h.cur_line[Len(h.cur_line)])
                  THEN SubSeq(h.cur_line, 1, Len(h.cur_line) - 1) ELSE h.cur_line
        cur_len == Len(Concat(cur))
    IN  IF cur = <<>>
        THEN WrapLoop(self, rest, lines)
        ELSE IF self.max_lines = 0
                \/ Len(lines) + 1 < self.max_lines
                \/ ((rest = <<>> \/ (Len(rest) = 1 /\ IsBlank(rest[1]))) /\ cur_len <= width)
        THEN WrapLoop(self, rest, Append(lines, indent \o Concat(cur)))
        ELSE LET tr == Truncate(cur, width)
             IN  IF tr /= <<>> THEN Append(lines, indent \o Concat(tr))
                 ELSE IF lines /= <<>>
                         /\ Len(RStrip(lines[Len(lines)])) + Len(Placeholder) <= self.width
                 THEN [lines EXCEPT ![Len(lines)] = RStrip(@) \o Placeholder]
                 ELSE Append(lines, indent \o LStrip(Placeholder))

\* A variant of BaseWrapChunks without the check of the width.
BaseWrapChunksNoWidthCheck(self, chunks) ==
    IF self.max_lines /= 0
       /\ Len(IF self.max_lines > 1 THEN self.subsequent_indent
                                     ELSE self.initial_indent)
          + Len(LStrip(Placeholder)) > self.width
    THEN [err |-> "ValueError", lines |-> <<>>]
    ELSE [err |-> "none", lines |-> WrapLoop(self, chunks, <<>>)]

\* max_lines = 0 stands for None.  The result is the list of lines, or the
\* ValueError raised before any chunk is looked at.
BaseWrapChunks(self, chunks) ==
    IF self.width <= 0 THEN [err |-> "ValueError", lines |-> <<>>]
    ELSE IF self.max_lines /= 0
            /\ Len(IF self.max_lines > 1 THEN self.subsequent_indent
                                          ELSE self.initial_indent)
               + Len(LStrip(Placeholder)) > self.width
    THEN [err |-> "ValueError", lines |-> <<>>]
    ELSE [err |-> "none", lines |-> WrapLoop(self, chunks, <<>>)]

(***************************************************************************)
(* jtextwrap.TextWrapper                                                   *)
(***************************************************************************)
\* Variants of Distribute: the remainder dropped, every entry rounded up,
\* the remainder put on the last entries.
DistributeNoRemainder(num, len) == [i \in 1..len |-> PyDiv(num, len)]

DistributeRoundUp(num, len) == [i \in 1..len |-> -PyDiv(-num, len)]

DistributeFromRight(num, len) ==
    [i \in 1..len |-> PyDiv(num, len) + (IF i > len - PyMod(num, len) THEN 1 ELSE 0)]

\* TextWrapper._distribute
Distribute(num, len) ==
    [i \in 1..len |-> PyDiv(num, len) + (IF i <= PyMod(num, len) THEN 1 ELSE 0)]

\* random.shuffle(add_spaces): every arrangement of the list.
Shuffles(d) ==
    IF d = <<>> THEN {<<>>}
    ELSE {[i \in 1..Len(d) |-> d[p[i]]] : p \in Permutations(1..Len(d))}

\* chunks.count(' ')
CountSpaces(chunks) == Cardinality({i \in 1..Len(chunks) : chunks[i] = <<" ">>})

\* "if not self.justify_indent: if self.initial_indent or self.subsequent_indent"
SkipIndent(self) ==
    ~self.justify_indent /\ (self.initial_indent /= <<>> \/ self.subsequent_indent /= <<>>)

\* The "Widen chunk spaces" loop: every ' ' chunk pops the next count.
\* Popping from the empty list raises IndexError.
RECURSIVE Widen(_, _)
Widen(chunks, add_spaces) ==
    IF chunks = <<>> THEN [chunks |-> <<>>, err |-> "none"]
    ELSE IF Head(chunks) /= <<" ">>
    THEN LET r == Widen(Tail(chunks), add_spaces)
         IN  [chunks |-> <<Head(chunks)>> \o r.chunks, err |-> r.err]
    ELSE IF add_spaces = <<>> THEN [chunks |-> <<>>, err |-> "IndexError"]
    ELSE LET r == Widen(Tail(chunks), Tail(add_spaces))
         IN  [chunks |-> <<Spaces(Head(add_spaces) + 1)>> \o r.chunks, err |-> r.err]

\* A variant of JustifyLine without the second "Avoid spacing after indent
\* string" block: no 0 is inserted for the indent gap.
JustifyLineNoInsert(self, line) ==
    LET chunks  == Split(line)
        nspaces == CountSpaces(chunks) - (IF SkipIndent(self) THEN 1 ELSE 0)
        jlen    == self.width - Len(line)
        d       == Distribute(jlen, nspaces)
    IN  IF nspaces = 0
        THEN {[nspaces |-> 0, jlen |-> jlen, plan |-> <<>>, jline |-> line, err |-> "none"]}
        ELSE {LET wd == Widen(chunks, p)
              IN  [nspaces |-> nspaces, jlen |-> jlen, plan |-> p,
                   jline |-> Concat(wd.chunks), err |-> wd.err]
              : p \in (IF self.random_spacing THEN Shuffles(d) ELSE {d})}

\* One pass of "for line in lines": the outcomes the shuffle allows.  plan
\* is add_spaces as distributed and shuffled, before the 0 of the indent
\* gap is inserted.
JustifyLine(self, line) ==
    LET chunks  == Split(line)
        nspaces == CountSpaces(chunks) - (IF SkipIndent(self) THEN 1 ELSE 0)
        jlen    == self.width - Len(line)
        d       == Distribute(jlen, nspaces)
    IN  IF nspaces = 0
        THEN {[nspaces |-> 0, jlen |-> jlen, plan |-> <<>>, jline |-> line, err |-> "none"]}
        ELSE {LET wd == Widen(chunks, IF SkipIndent(self) THEN <<0>> \o p ELSE p)
              IN  [nspaces |-> nspaces, jlen |-> jlen, plan |-> p,
                   jline |-> Concat(wd.chunks), err |-> wd.err]
              : p \in (IF self.random_spacing THEN Shuffles(d) ELSE {d})}

\* The whole "for line in lines" loop.
RECURSIVE JustifyLines(_, _)
JustifyLines(self, lines) ==
    IF lines = <<>> THEN {<<>>}
    ELSE {<<r>> \o rest : r \in JustifyLine(self, Head(lines)),
                          rest \in JustifyLines(self, Tail(lines))}

\* A variant of RJust that pads with width spaces whatever the length.
RJustFull(s, width) == Spaces(width) \o s

\* str.rjust(width)
RJust(s, width) == Spaces(width - Len(s)) \o s

\* str.center(width): the left margin takes the odd space when the margin
\* and the width are both odd.
Center(s, width) ==
    LET marg == width - Len(s)
        left == marg \div 2 + (IF marg % 2 = 1 /\ width % 2 = 1 THEN 1 ELSE 0)
    IN  IF marg <= 0 THEN s ELSE Spaces(left) \o s \o Spaces(marg - left)

\* A variant of LastLine whose centered line keeps its trailing padding.
LastLineNoRStrip(self, line, jline) ==
    CASE self.justify_last = "left"   -> line
      [] self.justify_last = "right"  -> RJust(line, self.width)
      [] self.justify_last = "center" -> Center(line, self.width)
      [] self.justify_last = "full"   -> jline

\* The "last" dictionary and its lookup.
LastLine(self, line, jline) ==
    CASE self.justify_last = "left"   -> line
      [] self.justify_last = "right"  -> RJust(line, self.width)
      [] self.justify_last = "center" -> RStrip(Center(line, self.width))
      [] self.justify_last = "full"   -> jline

\* TextWrapper._wrap_chunks: the outcomes of one call.  lines is what
\* super()._wrap_chunks returned, info the record of every pass of the
\* loop, jlines the list returned.
WrapChunks(self, chunks) ==
    LET base == BaseWrapChunks(self, chunks)
        n    == Len(base.lines)
    IN  IF base.err /= "none"
        THEN {[err |-> base.err, lines |-> <<>>, info |-> <<>>, jlines |-> <<>>]}
        ELSE IF ~self.justify \/ base.lines = <<>>
        THEN {[err |-> "none", lines |-> base.lines, info |-> <<>>, jlines |-> base.lines]}
        ELSE {IF \E i \in 1..n : info[i].err /= "none"
              THEN [err |-> "IndexError", lines |-> base.lines, info |-> info, jlines |-> <<>>]
              ELSE [err |-> "none", lines |-> base.lines, info |-> info,
                    jlines |-> [i \in 1..n |->
                                 IF i < n THEN info[i].jline
                                 ELSE LastLine(self, base.lines[n], info[n].jline)]]
              : info \in JustifyLines(self, base.lines)}

\* TextWrapper.wrap
Wrap(self, t) == WrapChunks(self, Split(Munge(CollapseSpaces(Strip(t)))))

\* TextWrapper.fill: super().fill() joins what self.wrap() returns.
Fill(self, t) == Wrap(self, CollapseSpaces(Strip(t)))

(***************************************************************************)
(* Inputs                                                                  *)
(***************************************************************************)
\* Words of the letter "a" separated by single spaces, n characters at most.
RECURSIVE NormalTexts(_)
NormalTexts(n) ==
    IF n <= 0 THEN {<<>>}
    ELSE LET words == {[i \in 1..k |-> "a"] : k \in 1..n}
         IN  {<<>>} \cup words
             \cup {v \o <<" ">> \o t : v \in {u \in words : Len(u) <= n - 2},
                                       t \in NormalTexts(n - 2) \ {<<>>}}

\* The same text typed carelessly: every space doubled, a space before and
\* one after.
RECURSIVE DoubleSpaces(_)
DoubleSpaces(s) ==
    IF s = <<>> THEN <<>>
    ELSE (IF Head(s) = " " THEN <<" ", " ">> ELSE <<Head(s)>>) \o DoubleSpaces(Tail(s))

Sloppy(s) == <<" ">> \o DoubleSpaces(s) \o <<" ">>

\* The same text typed into a narrow window: a line break after every space.
RECURSIVE Broken(_)
Broken(s) ==
    IF s = <<>> THEN <<>>
    ELSE (IF Head(s) = " " THEN <<" ", "\n">> ELSE <<Head(s)>>) \o Broken(Tail(s))

TextsUpTo(n) ==
    LET ts == {t \in NormalTexts(n) : Len(t) <= n}
    IN  ts \cup {Sloppy(t) : t \in ts} \cup {Broken(t) : t \in ts}

Texts == TextsUpTo(MaxLen)
ShortenTexts == TextsUpTo(MaxShortenLen)

Indents == {<<>>, <<"#", " ">>}
JustifyLast == {"left", "right", "center", "full"}

NoCall == [err |-> "none", lines |-> <<>>, info |-> <<>>, jlines |-> <<>>]
NoPrev == [text |-> <<>>, jlines |-> <<>>]

\* TextWrapper.__init__
Construct(width, initial_indent, subsequent_indent, max_lines, justify, random_spacing, justify_last, justify_indent) ==
    [width |-> width, initial_indent |-> initial_indent,
     subsequent_indent |-> subsequent_indent, max_lines |-> max_lines,
     justify |-> justify, random_spacing |-> random_spacing,
     justify_last |-> justify_last, justify_indent |-> justify_indent]

(***************************************************************************)
(* The state machine: a TextWrapper is constructed, then one method of it  *)
(* is called.                                                              *)
(***************************************************************************)
Init ==
    /\ w \in {Construct(width, ii, si, 0, j, rs, jl, ji) :
                 width \in 0..MaxWidth, ii \in Indents, si \in Indents,
                 j \in BOOLEAN, rs \in BOOLEAN, jl \in JustifyLast, ji \in BOOLEAN}
    /\ pc = "new"
    /\ api = "none"
    /\ text = <<>>
    /\ ret = NoCall
    /\ filled = <<>>
    /\ prev = NoPrev

\* w.wrap(t)
CallWrap ==
    /\ pc = "new"
    /\ \E t \in Texts :
          /\ text' = t
          /\ ret' \in Wrap(w, t)
    /\ api' = "wrap"
    /\ pc' = "done"
    /\ UNCHANGED <<w, filled, prev>>

\* w.fill(t)
CallFill ==
    /\ pc = "new"
    /\ \E t \in Texts :
          /\ text' = t
          /\ ret' \in Fill(w, t)
    /\ filled' = JoinLines(ret'.jlines)
    /\ api' = "fill"
    /\ pc' = "done"
    /\ UNCHANGED <<w, prev>>

\* w.wrap(w.fill(t)): the paragraph fill() returned is wrapped again by the
\* same object.
Rewrap ==
    /\ pc = "done"
    /\ api = "fill"
    /\ ret.err = "none"
    /\ text' = filled
    /\ ret' \in Wrap(w, filled)
    /\ prev' = [text |-> text, jlines |-> ret.jlines]
    /\ api' = "wrap"
    /\ pc' = "again"
    /\ UNCHANGED <<w, filled>>

\* shorten(t, width, **kwargs): a TextWrapper with max_lines = 1 fills the
\* text, its whitespace normalized first.
CallShorten ==
    /\ pc = "new"
    /\ w.max_lines = 1
    /\ \E t \in ShortenTexts :
          /\ text' = t
          /\ ret' \in Fill(w, NormalizeWords(t))
    /\ filled' = JoinLines(ret'.jlines)
    /\ api' = "shorten"
    /\ pc' = "done"
    /\ UNCHANGED <<w, prev>>

Next == CallWrap \/ CallFill

Spec == Init /\ [][Next]_vars

NextRewrap == CallFill \/ Rewrap

SpecRewrap == Init /\ [][NextRewrap]_vars

\* shorten() constructs its own TextWrapper, without indents here.
InitShorten ==
    /\ w \in {Construct(width, <<>>, <<>>, 1, j, rs, jl, ji) :
                 width \in 0..MaxShortenWidth,
                 j \in BOOLEAN, rs \in BOOLEAN, jl \in JustifyLast, ji \in BOOLEAN}
    /\ pc = "new"
    /\ api = "none"
    /\ text = <<>>
    /\ ret = NoCall
    /\ filled = <<>>
    /\ prev = NoPrev

NextShorten == CallShorten

SpecShorten == InitShorten /\ [][NextShorten]_vars

(***************************************************************************)
(* Properties                                                              *)
(***************************************************************************)
\* A call returned lines that went through the justification loop.
Justified == pc /= "new" /\ w.justify /\ ret.err = "none" /\ ret.lines /= <<>>

NLines == Len(ret.lines)
\* nspaces and jlen of the pass over line i
GapCount(i) == ret.info[i].nspaces
Deficit(i) == w.width - Len(ret.lines[i])
IsLast(i) == i = NLines

RECURSIVE SumSeq(_)
SumSeq(q) == IF q = <<>> THEN 0 ELSE Head(q) + SumSeq(Tail(q))

\* The floor of d / n, for n > 0, found without dividing.
Base(d, n) ==
    CHOOSE b \in (IF d < 0 THEN d ELSE 0)..(IF d < 0 THEN 0 ELSE d) :
        n * b <= d /\ d < n * (b + 1)

\* The position, among the chunks cs, of the m-th chunk that is one space.
GapPos(cs, m) ==
    CHOOSE k \in 1..Len(cs) :
        cs[k] = <<" ">> /\ Cardinality({j \in 1..k : cs[j] = <<" ">>}) = m

NotBlank(c) == ~IsBlank(c)
\* The words of every line, line by line.
LineWords(ls) == [i \in 1..Len(ls) |-> SelectSeq(Split(ls[i]), NotBlank)]

\* The only whitespace of t is the space character, so that wrap(), after
\* collapsing the runs of spaces, sees single spaces between the words.
OnlySpaces(t) == \A k \in 1..Len(t) : IsSpace(t[k]) => t[k] = " "

\* C1: with justify on, every line but the last (and the last one too under
\* justify_last = "full") that has a participating gap and a deficit >= 0
\* comes out exactly width characters long, shuffled or not.
C1_ExactWidth ==
    Justified =>
        \A i \in 1..NLines :
            ((~IsLast(i) \/ w.justify_last = "full")
                /\ GapCount(i) > 0 /\ Deficit(i) >= 0)
            => Len(ret.jlines[i]) = w.width

C1_Witness ==
    /\ Justified
    /\ w.random_spacing
    /\ \E i \in 1..NLines :
          /\ ~IsLast(i)
          /\ GapCount(i) >= 2
          /\ Deficit(i) >= 1
          /\ Len(ret.jlines[i]) = w.width

\* C2: for a line with gap_count > 0, the plan of added spaces, as
\* distributed and as shuffled, has gap_count entries that sum to the
\* deficit; every entry is base or base + 1 with base = deficit // gap_count,
\* and deficit % gap_count of them are base + 1.
C2_PlanSum ==
    Justified =>
        \A i \in 1..NLines :
            GapCount(i) > 0 =>
                LET plan == ret.info[i].plan
                    n    == GapCount(i)
                    base == Base(Deficit(i), n)
                IN  /\ Len(plan) = n
                    /\ SumSeq(plan) = Deficit(i)
                    /\ \A k \in 1..n : plan[k] \in {base, base + 1}
                    /\ Cardinality({k \in 1..n : plan[k] = base + 1})
                         = Deficit(i) - n * base

C2_Witness ==
    /\ Justified
    /\ w.random_spacing
    /\ \E i \in 1..NLines :
          /\ GapCount(i) >= 2
          /\ ret.info[i].plan[1] < ret.info[i].plan[2]
          /\ SumSeq(ret.info[i].plan) = Deficit(i)

\* C3: justify_last decides the last line only, also when it is the only
\* one: "left" gives the greedy line, "right" the greedy line after
\* width - len spaces, "center" the greedy line after the floor or the
\* ceiling of (width - len) / 2 spaces with nothing after it, "full" the
\* justified candidate; the lines before are the justified ones.
C3_LastLinePolicy ==
    Justified =>
        LET line == ret.lines[NLines]
            out  == ret.jlines[NLines]
            room == w.width - Len(line)
        IN  /\ Len(ret.jlines) = NLines
            /\ \A i \in 1..(NLines - 1) : ret.jlines[i] = ret.info[i].jline
            /\ w.justify_last = "left" => out = line
            /\ w.justify_last = "right" =>
                  /\ out = Spaces(room) \o line
                  /\ room >= 0 => Len(out) = w.width
            /\ w.justify_last = "center" =>
                  /\ \E k \in {room \div 2, (room + 1) \div 2} : out = Spaces(k) \o line
                  /\ out[Len(out)] /= " "
            /\ w.justify_last = "full" => out = ret.info[NLines].jline

C3_Witness ==
    /\ Justified
    /\ NLines >= 2
    /\ w.justify_last = "center"
    /\ w.width - Len(ret.lines[NLines]) >= 3
    /\ ret.jlines[1] /= ret.lines[1]
    /\ ret.jlines[NLines] /= ret.lines[NLines]

\* C4: with justify_indent off, the first gap of a line is left out of the
\* justification exactly when that line carries a non-empty indent: there
\* the gap after the prefix stays one space, and on a line without a prefix
\* every single-space gap takes part.
C4_IndentGapOnlyOnIndentedLines ==
    (Justified /\ ~w.justify_indent) =>
        \A i \in 1..NLines :
            LET indent == IF i = 1 THEN w.initial_indent ELSE w.subsequent_indent
                count  == CountSpaces(Split(ret.lines[i]))
            IN  /\ indent /= <<>> =>
                      /\ GapCount(i) = count - 1
                      /\ SubSeq(ret.info[i].jline, 1, Len(indent) + 1)
                           = SubSeq(ret.lines[i], 1, Len(indent) + 1)
                /\ (indent = <<>> /\ count > 0) => GapCount(i) = count

\* C5: a line whose deficit is <= 0 gets no space added: the line returned
\* is the greedy line, no separating space lost and no two words merged.
C5_NoStretchWithoutDeficit ==
    Justified =>
        \A i \in 1..NLines : Deficit(i) <= 0 => ret.jlines[i] = ret.lines[i]

\* C6, as claimed: shorten() always returns one line of at most width
\* characters.
C6_ShortenAlwaysFits ==
    (pc = "done" /\ api = "shorten") =>
        /\ ret.err = "none"
        /\ Len(filled) <= w.width
        /\ \A k \in 1..Len(filled) : filled[k] /= "\n"

\* C6, amended: when the width holds the placeholder "[...]", shorten()
\* returns one line of at most width characters, whatever justify,
\* random_spacing and justify_last are; with a smaller width it raises
\* ValueError.
C6_ShortenFitsOrRaises ==
    (pc = "done" /\ api = "shorten") =>
        IF w.width >= Len(LStrip(Placeholder))
        THEN /\ ret.err = "none"
             /\ Len(filled) <= w.width
             /\ \A k \in 1..Len(filled) : filled[k] /= "\n"
        ELSE ret.err = "ValueError"

C6_Witness ==
    /\ pc = "done"
    /\ api = "shorten"
    /\ ret.err = "none"
    /\ w.justify
    /\ w.justify_last = "full"
    /\ Len(filled) = w.width
    /\ Len(ret.lines[1]) < w.width
    /\ SubSeq(filled, Len(filled) - 4, Len(filled)) = LStrip(Placeholder)

\* C7, as claimed: for any text and any configuration, wrapping the joined
\* lines again gives the same words on the same lines.
C7_RewrapSameBreaks ==
    pc = "again" =>
        /\ ret.err = "none"
        /\ LineWords(ret.jlines) = LineWords(prev.jlines)

\* C7, amended: with both indents empty and a text whose only whitespace is
\* the space character, wrapping the joined lines again gives the same words
\* on the same lines.
C7_RewrapSameBreaksNoIndent ==
    (pc = "again" /\ w.initial_indent = <<>> /\ w.subsequent_indent = <<>>
        /\ OnlySpaces(prev.text)) =>
        /\ ret.err = "none"
        /\ LineWords(ret.jlines) = LineWords(prev.jlines)

C7_Witness ==
    /\ pc = "again"
    /\ w.initial_indent = <<>>
    /\ w.subsequent_indent = <<>>
    /\ OnlySpaces(prev.text)
    /\ w.justify
    /\ w.justify_last = "right"
    /\ Len(prev.jlines) >= 2
    /\ prev.jlines[1] /= ret.lines[1]
    /\ prev.jlines[2] /= ret.lines[2]
    /\ LineWords(ret.jlines) = LineWords(prev.jlines)

C9_LeftmostFirst ==
    (Justified /\ ~w.random_spacing) =>
        /\ \A i \in 1..NLines :
              GapCount(i) > 0 =>
                  LET plan == ret.info[i].plan
                      n    == GapCount(i)
                      base == Base(Deficit(i), n)
                      r    == Deficit(i) - n * base
                      cs   == Split(ret.lines[i])
                      js   == Split(ret.info[i].jline)
                      skip == IF SkipIndent(w) THEN 1 ELSE 0
                  IN  /\ \A k \in 1..n : plan[k] = base + (IF k <= r THEN 1 ELSE 0)
                      /\ \A k \in 1..(n - 1) : plan[k] >= plan[k + 1]
                      /\ Deficit(i) >= 0 =>
                            /\ Len(js) = Len(cs)
                            /\ \A m \in 1..n :
                                  Len(js[GapPos(cs, m + skip)]) = 1 + plan[m]
                            /\ skip = 1 => Len(js[GapPos(cs, 1)]) = 1
        /\ api = "wrap" => Wrap(w, text) = {ret}
        /\ api = "fill" => Fill(w, text) = {ret}

C9_Witness ==
    /\ Justified
    /\ ~w.random_spacing
    /\ \E i \in 1..NLines :
          /\ GapCount(i) >= 2
          /\ Deficit(i) >= 1
          /\ ret.info[i].plan[1] > ret.info[i].plan[GapCount(i)]

====
